---- MODULE Spec2Model ----
(***************************************************************************)
(* Model of the diary application's persistence service (DiaryDBService,   *)
(* src/unnamed/part_000), of the IndexedDB transactions it issues, of the  *)
(* editor's autosave (src/unnamed/part_003) that drives updateDiary, and   *)
(* of the list view's clampVisibleCount (src/src/lib/listPerf.js).         *)
(*                                                                         *)
(* Text is a sequence of character classes:                                *)
(*   "a"    an ASCII letter or digit        "_"   an underscore            *)
(*   "."    an ASCII punctuation mark       " "   white space              *)
(*   "CJK"  an ideograph (U+4E00..U+9FA5)   "FW"  a full-width mark        *)
(*   "<" ">" angle brackets                 "nbsp" the entity &nbsp;       *)
(* A Date is [ms |-> t, iso |-> FALSE]; the ISO string JSON carries for it *)
(* is [ms |-> t, iso |-> TRUE].  An optional value is a sequence of length *)
(* zero or one.  A JavaScript object is a function over its own keys.      *)
(***************************************************************************)
EXTENDS Integers, Sequences, FiniteSets, TLC

\* ------------------------------------------------------------------ bounds

\* The clock takes the values 0..MaxTime.
MaxTime == 1

\* calls (other than init) in a behaviour of Spec and of SpecEntries
MaxCalls == 2

\* calls in a behaviour of SpecRestore
MaxRestoreCalls == 2

\* calls in a behaviour of SpecEditor
MaxEditorCalls == 5

\* calls in a behaviour of SpecBackup
MaxBackupCalls == 4

\* calls in a behaviour of SpecUpdate
MaxUpdateCalls == 2

\* calls in a behaviour of SpecLegacy
MaxLegacyCalls == 2

\* calls in a behaviour of SpecSettings
MaxSettingsCalls == 3

\* page sizes and caps of the list view are 1..MaxClamp
MaxClamp == 3

\* calls in a behaviour of SpecRace, of SpecSetterRace and of SpecSession
MaxRaceCalls == 3

\* ------------------------------------------------------------- text model

\* leftmost index >= i of a ">" in s, or 0
RECURSIVE NextGt(_, _)
NextGt(s, i) ==
  IF i > Len(s) THEN 0
  ELSE IF s[i] = ">" THEN i
  ELSE NextGt(s, i + 1)

\* content.replace(/<[^>]*>/g, '')
RECURSIVE StripTags(_)
StripTags(s) ==
  IF s = << >> THEN << >>
  ELSE IF Head(s) = "<" /\ NextGt(s, 2) # 0
       THEN StripTags(SubSeq(s, NextGt(s, 2) + 1, Len(s)))
       ELSE <<Head(s)>> \o StripTags(Tail(s))

\* .replace(/&nbsp;/g, ' ')
ReplaceNbsp(s) == [i \in 1..Len(s) |-> IF s[i] = "nbsp" THEN " " ELSE s[i]]

\* .trim()
RECURSIVE TrimLeft(_)
TrimLeft(s) ==
  IF s = << >> THEN << >>
  ELSE IF Head(s) = " " THEN TrimLeft(Tail(s)) ELSE s

RECURSIVE TrimRight(_)
TrimRight(s) ==
  IF s = << >> THEN << >>
  ELSE IF s[Len(s)] = " " THEN TrimRight(SubSeq(s, 1, Len(s) - 1)) ELSE s

Trim(s) == TrimRight(TrimLeft(s))

\* text.replace(/<[^>]*>/g, '').replace(/&nbsp;/g, ' ').trim()
CleanContent(s) == Trim(ReplaceNbsp(StripTags(s)))

\* number of positions of s holding a class of cs
CountIn(s, cs) == Cardinality({i \in 1..Len(s) : s[i] \in cs})

\* s with every class of cs replaced by a space
BlankOut(s, cs) == [i \in 1..Len(s) |-> IF s[i] \in cs THEN " " ELSE s[i]]

\* .split(/\s+/).filter(word => word.length > 0 && keep(word)), counted:
\* the maximal runs of non-space positions, those holding a class of need
\* (every run when need is empty)
WordRuns(s, need) ==
  LET starts == {i \in 1..Len(s) : s[i] # " " /\ (i = 1 \/ s[i - 1] = " ")}
      RunEnd(i) == CHOOSE j \in i..Len(s) :
                     /\ \A k \in i..j : s[k] # " "
                     /\ (j = Len(s) \/ s[j + 1] = " ")
  IN  Cardinality({i \in starts :
        need = {} \/ \E k \in i..RunEnd(i) : s[k] \in need})

\* the storage service's private word count
calculateWordCount(content) ==
  LET cleanContent == CleanContent(content)
      nonCjkContent == BlankOut(cleanContent, {"CJK"})
      englishWords == WordRuns(BlankOut(nonCjkContent, {".", "FW", "<", ">", "nbsp"}), {"a"})
  IN  IF cleanContent = << >> THEN 0
      ELSE CountIn(cleanContent, {"CJK"}) + englishWords

\* the shared word count the editor uses
calculateWordCountUtils(text) ==
  LET cleanText == CleanContent(text)
      nonCjkContent == BlankOut(cleanText, {"CJK", "FW"})
  IN  IF cleanText = << >> THEN 0
      ELSE CountIn(cleanText, {"CJK", "FW"}) + WordRuns(Trim(nonCjkContent), {})

\* ------------------------------------------------------------ value model

\* new Date(t)
DateOf(t) == [ms |-> t, iso |-> FALSE]

\* Date.prototype.toISOString, as JSON.stringify applies it
toISOString(d) == [ms |-> d.ms, iso |-> TRUE]

\* a Date is returned as it is, an ISO string goes through new Date(...)
parseDate(date) == IF date.iso THEN [ms |-> date.ms, iso |-> FALSE] ELSE date

\* key in object
Has(o, k) == k \in DOMAIN o

\* { ...a, ...b }
Spread(a, b) ==
  [k \in DOMAIN a \cup DOMAIN b |-> IF k \in DOMAIN b THEN b[k] ELSE a[k]]

\* o[k] ?? dflt  (also  o[k] || dflt  for booleans and arrays)
OrDefault(o, k, dflt) == IF Has(o, k) THEN o[k] ELSE dflt

\* `${diff > 0 ? '+' : ''}${diff}`
SignedDiff(diff) ==
  IF diff > 0 THEN <<"+", diff>> ELSE IF diff < 0 THEN <<"-", 0 - diff>> ELSE <<"", 0>>

\* --------------------------------------------------------- object stores

\* IDBObjectStore.put(value) of a store with in-line keys at keyPath
Put(store, value, keyPath) ==
  [k \in DOMAIN store \cup {value[keyPath]} |->
     IF k = value[keyPath] THEN value ELSE store[k]]

\* IDBObjectStore.delete(key)
Delete(store, key) == [k \in DOMAIN store \ {key} |-> store[k]]

\* IDBObjectStore.clear()
EmptyStore == [k \in {} |-> << >>]

\* the outcomes of a readwrite transaction: every request succeeds and the
\* transaction commits; a request fails, its error event reaches the
\* transaction and the transaction aborts; or every request succeeds and
\* the commit itself fails, so the transaction aborts with an abort event
Faults == {"none", "request", "commit"}

\* --------------------------------------------------------------- entries

\* a normalization that parses the dates and supplies no default
normalizeDiaryEntryDatesOnly(entry) ==
  Spread(entry,
    [createdAt |-> parseDate(entry.createdAt),
     updatedAt |-> parseDate(entry.updatedAt)])

normalizeDiaryEntry(entry) ==
  Spread(entry,
    [createdAt |-> parseDate(entry.createdAt),
     updatedAt |-> parseDate(entry.updatedAt),
     isStarred |-> OrDefault(entry, "isStarred", FALSE),
     isArchived |-> OrDefault(entry, "isArchived", FALSE),
     isEdited |-> OrDefault(entry, "isEdited", FALSE),
     editHistory |->
       LET h == OrDefault(entry, "editHistory", << >>)
       IN  [i \in 1..Len(h) |->
              Spread(h[i], [timestamp |-> parseDate(h[i].timestamp)])]])

\* `${Date.now()}-${Math.random().toString(36).substr(2, 9)}`
GenId(t, r) == <<t, r>>

\* the record createDiary puts; diary holds title, content and, when the
\* caller supplies it, createdAt
NewEntry(diary, id, t) ==
  LET now == OrDefault(diary, "createdAt", DateOf(t))
  IN  Spread(diary,
        [id |-> id,
         createdAt |-> now,
         updatedAt |-> now,
         wordCount |-> calculateWordCount(diary.content),
         isStarred |-> FALSE,
         isArchived |-> FALSE,
         isEdited |-> FALSE,
         editHistory |-> << >>])

\* the word count updateDiary stores: recomputed when updates.content is truthy
NewWordCount(existing, updates) ==
  IF Has(updates, "content") /\ updates.content # << >>
  THEN calculateWordCount(updates.content)
  ELSE existing.wordCount

\* the isEdited flag updateDiary stores
NewIsEdited(existing, updates) ==
  LET hasContentChange == Has(updates, "content") /\ updates.content # existing.content
      hasTitleChange == Has(updates, "title") /\ updates.title # existing.title
      hasActualChange == hasContentChange \/ hasTitleChange
  IN  IF Has(updates, "isEdited") THEN updates.isEdited
      ELSE existing.isEdited \/ hasActualChange

\* the edit history updateDiary stores
NewEditHistory(existing, updates) ==
  IF Has(updates, "editHistory") THEN updates.editHistory ELSE existing.editHistory

\* the record updateDiary puts, built from the normalized existing record
UpdatedEntry(existing, updates, t) ==
  Spread(Spread(existing, updates),
    [updatedAt |-> DateOf(t),
     wordCount |-> NewWordCount(existing, updates),
     isEdited |-> NewIsEdited(existing, updates),
     editHistory |-> NewEditHistory(existing, updates)])

\* the record importData puts for one element of data.diaries
ImportedEntry(diary) ==
  Spread(diary,
    [isStarred |-> OrDefault(diary, "isStarred", FALSE),
     isArchived |-> OrDefault(diary, "isArchived", FALSE),
     isEdited |-> OrDefault(diary, "isEdited", FALSE),
     editHistory |-> OrDefault(diary, "editHistory", << >>)])

\* the record importData puts into the settings store
ImportedSettings(settings) == Spread([key |-> "app"], settings)

\* ---------------------------------------------------------------- inputs

Titles == {<< >>, <<"a">>}

\* what the user may have typed into the title field
TypedTitles == Titles \cup {<<"a", " ">>}

\* the service counts 0, 1, 1 and 2 words in them, the editor 0, 1, 1 and 3
Contents == {<< >>, <<"a">>, <<"<", "a", ">", "CJK">>, <<"a", " ", ".", " ", "a">>}

\* the values Math.random() contributes to an id
Rands == {"r1", "r2"}

\* the createdAt a caller of createDiary may supply: a backfilled date or a
\* date in the future
SuppliedDates == {DateOf(0), DateOf(MaxTime)}

\* update objects of the declared type Partial<Omit<DiaryEntry, 'id' | 'createdAt'>>
TypedUpdates ==
  << [content |-> << >>],
     [content |-> <<"a">>],
     [content |-> <<"<", "a", ">", "CJK">>],
     [content |-> <<"a", " ", ".", " ", "a">>],
     [title |-> << >>],
     [title |-> <<"a">>],
     [content |-> <<"a">>, wordCount |-> 9],
     [isEdited |-> FALSE],
     [editHistory |-> << >>],
     [updatedAt |-> DateOf(0)] >>

\* update objects that carry an id or a createdAt all the same
UntypedUpdates ==
  << [id |-> GenId(0, "r2")],
     [createdAt |-> DateOf(MaxTime)] >>

\* the update objects callers pass to updateDiary
Updates == TypedUpdates \o UntypedUpdates

\* elements of a snapshot's diaries array: a full record as backupData writes
\* it, a record of an older schema with a stale wordCount, and a record with
\* no id
SnapFull ==
  [id |-> GenId(0, "r1"), title |-> <<"a">>, content |-> <<"a">>,
   createdAt |-> toISOString(DateOf(0)), updatedAt |-> toISOString(DateOf(0)),
   wordCount |-> 1, isStarred |-> TRUE, isArchived |-> FALSE, isEdited |-> TRUE,
   editHistory |-> <<[timestamp |-> toISOString(DateOf(0)), changes |-> <<"+", 1>>]>>]

SnapLegacy ==
  [id |-> GenId(0, "r2"), title |-> << >>, content |-> <<"a", " ", ".", " ", "a">>,
   createdAt |-> toISOString(DateOf(0)), updatedAt |-> toISOString(DateOf(0)),
   wordCount |-> 9]

SnapNoId ==
  [title |-> << >>, content |-> <<"a">>,
   createdAt |-> toISOString(DateOf(0)), updatedAt |-> toISOString(DateOf(0)),
   wordCount |-> 1]

\* the texts handed to restoreBackup.  wellFormed: JSON.parse accepts the
\* text; value: what it returns (<< >> for null, else <<object>>); a JSON
\* array is [array |-> elements], a JSON string [string |-> characters]
Texts ==
  << [wellFormed |-> FALSE],
     [wellFormed |-> TRUE, value |-> << >>],
     [wellFormed |-> TRUE, value |-> <<[settings |-> [theme |-> "dark"]]>>],
     [wellFormed |-> TRUE,
      value |-> <<[diaries |-> [string |-> "x"], settings |-> [theme |-> "dark"]]>>],
     [wellFormed |-> TRUE,
      value |-> <<[diaries |-> [array |-> << >>], settings |-> [theme |-> "dark"]]>>],
     [wellFormed |-> TRUE,
      value |-> <<[diaries |-> [array |-> <<SnapFull>>],
                   settings |-> [key |-> "other", theme |-> "dark"]]>>],
     [wellFormed |-> TRUE,
      value |-> <<[diaries |-> [array |-> <<SnapFull, SnapNoId>>],
                   settings |-> [theme |-> "dark"]]>>],
     [wellFormed |-> TRUE,
      value |-> <<[diaries |-> [array |-> <<SnapLegacy>>]]>>] >>

\* records of an older schema, as a database that exists already may hold
\* them: no isStarred, no isArchived, no editHistory; the dates as Date
\* objects or as ISO strings
LegacyPlain ==
  [id |-> GenId(0, "r1"), title |-> <<"a">>, content |-> <<"a">>,
   createdAt |-> DateOf(0), updatedAt |-> DateOf(0), wordCount |-> 1]

LegacyIso ==
  [id |-> GenId(0, "r2"), title |-> << >>, content |-> <<"a", " ", ".", " ", "a">>,
   createdAt |-> toISOString(DateOf(0)), updatedAt |-> toISOString(DateOf(0)),
   wordCount |-> 9, isEdited |-> TRUE]

\* the diary stores of such a database
LegacyStores ==
  {[k \in {e.id : e \in es} |-> CHOOSE e \in es : e.id = k] :
     es \in SUBSET {LegacyPlain, LegacyIso}}

\* ----------------------------------------------------------------- state

VARIABLES
  db,             \* this.db is set (the database handle is open)
  inited,         \* an init() call has resolved with the settings record in place
  diaryStore,     \* object store 'diary': id -> record
  settingsStore,  \* object store 'settings': key -> record
  now,            \* the clock Date.now() reads
  calls,          \* calls the behaviour may still make
  editor,         \* the editor session: its diary prop and currentDiaryIdRef
  ret,            \* the last call: entry point, service mutation, outcome
  snapshot,       \* the text the last successful backupData returned, if any
  initResolved,   \* the promise of some init() call has resolved
  list,           \* the list view: the count it saved, its options, the count it shows
  pending         \* the operation that has read and has not written yet, if any

vars == <<db, inited, diaryStore, settingsStore, now, calls, editor, ret,
          snapshot, initResolved, list, pending>>

\* op: the entry point; svc: the service mutation it reached; status: how its
\* promise settled; write: "none" when no write request was issued, else
\* whether the transaction holding it committed; arg: the index of the text
\* (restoreBackup), else 0; result: what a read resolved with, else << >>
Ret(op, svc, status, write, arg) ==
  [op |-> op, svc |-> svc, status |-> status, write |-> write, arg |-> arg,
   result |-> << >>]

\* what became of a readwrite transaction
WriteOutcome(fault) == IF fault = "none" THEN "committed" ELSE "aborted"

DefaultSettings == [key |-> "app", theme |-> "light", lastBackup |-> << >>]

\* the list view before it has restored a count
NoList == [saved |-> [finite |-> FALSE, halves |-> 0], pageSize |-> 1, maxInitial |-> 1,
           total |-> << >>, visible |-> << >>]

\* the service as constructed, on a database that does not exist yet
InitWith(budget) ==
  /\ db = FALSE
  /\ inited = FALSE
  /\ diaryStore = EmptyStore
  /\ settingsStore = EmptyStore
  /\ now = 0
  /\ calls = budget
  /\ editor = [open |-> FALSE, diary |-> << >>, currentId |-> << >>]
  /\ ret = Ret("none", "none", "ok", "none", 0)
  /\ snapshot = << >>
  /\ initResolved = FALSE
  /\ list = NoList
  /\ pending = << >>

\* time passes
Tick ==
  /\ now < MaxTime
  /\ now' = now + 1
  /\ UNCHANGED <<db, inited, diaryStore, settingsStore, calls, editor, ret, snapshot, initResolved, list, pending>>

\* -------------------------------------------------------------- settings

\* the record getSettings resolves with (<< >> when the store has none):
\* a stored lastBackup is parsed back into a Date
getSettings ==
  IF "app" \in DOMAIN settingsStore
  THEN LET result == settingsStore["app"]
       IN  IF Has(result, "lastBackup") /\ result.lastBackup # << >>
           THEN <<Spread(result, [lastBackup |-> <<parseDate(result.lastBackup[1])>>])>>
           ELSE <<result>>
  ELSE << >>

\* saveSettings under a fault: the store it leaves and how its promise
\* settles (request.onsuccess resolves it, request.onerror rejects it)
saveSettings(record, fault) ==
  [store |-> IF fault = "none" THEN Put(settingsStore, record, "key") ELSE settingsStore,
   status |-> IF fault = "request" THEN "error" ELSE "ok",
   write |-> WriteOutcome(fault)]

\* an init() that opens the database whether or not this.db is set
initReopening(support, readFails, fault) ==
  /\ UNCHANGED <<diaryStore, now, calls, editor, snapshot, list, pending>>
  /\ IF support # "opened"
     THEN /\ ret' = Ret("init", "none", "error", "none", 0)
          /\ UNCHANGED <<db, inited, settingsStore, initResolved>>
     ELSE /\ db' = TRUE
          /\ IF readFails
             THEN /\ ret' = Ret("init", "none", "error", "none", 0)
                  /\ UNCHANGED <<inited, settingsStore, initResolved>>
             ELSE IF getSettings # << >>
             THEN /\ ret' = Ret("init", "none", "ok", "none", 0)
                  /\ inited' = TRUE
                  /\ initResolved' = TRUE
                  /\ UNCHANGED settingsStore
             ELSE LET saved == saveSettings(DefaultSettings, fault)
                  IN  /\ settingsStore' = saved.store
                      /\ ret' = Ret("init", "saveSettings", saved.status, saved.write, 0)
                      /\ inited' = (inited \/ (saved.status = "ok" /\ fault = "none"))
                      /\ initResolved' = (initResolved \/ saved.status = "ok")

\* init(): support says whether window.indexedDB exists and whether
\* indexedDB.open succeeds
init(support, readFails, fault) ==
  /\ UNCHANGED <<diaryStore, now, calls, editor, snapshot, list, pending>>
  /\ IF db
     THEN /\ ret' = Ret("init", "none", "ok", "none", 0)
          /\ inited' = (inited \/ getSettings # << >>)
          /\ initResolved' = TRUE
          /\ UNCHANGED <<db, settingsStore>>
     ELSE IF support # "opened"
     THEN /\ ret' = Ret("init", "none", "error", "none", 0)
          /\ UNCHANGED <<db, inited, settingsStore, initResolved>>
     ELSE /\ db' = TRUE
          /\ IF readFails
             THEN /\ ret' = Ret("init", "none", "error", "none", 0)
                  /\ UNCHANGED <<inited, settingsStore, initResolved>>
             ELSE IF getSettings # << >>
             THEN /\ ret' = Ret("init", "none", "ok", "none", 0)
                  /\ inited' = TRUE
                  /\ initResolved' = TRUE
                  /\ UNCHANGED settingsStore
             ELSE LET saved == saveSettings(DefaultSettings, fault)
                  IN  /\ settingsStore' = saved.store
                      /\ ret' = Ret("init", "saveSettings", saved.status, saved.write, 0)
                      /\ inited' = (inited \/ (saved.status = "ok" /\ fault = "none"))
                      /\ initResolved' = (initResolved \/ saved.status = "ok")

\* a setter that saves a record of its own when it reads none
SettingsSetterCreating(op, field, value, readFails, fault) ==
  /\ calls > 0
  /\ calls' = calls - 1
  /\ UNCHANGED <<db, inited, diaryStore, now, editor, snapshot, initResolved, list, pending>>
  /\ IF ~db \/ readFails
     THEN /\ ret' = Ret(op, "none", "error", "none", 0)
          /\ UNCHANGED settingsStore
     ELSE LET settings == IF getSettings = << >> THEN [key |-> "app"] ELSE getSettings[1]
              saved == saveSettings(Spread(settings, [f \in {field} |-> value]), fault)
          IN  /\ settingsStore' = saved.store
              /\ ret' = Ret(op, "saveSettings", saved.status, saved.write, 0)

\* the three setters: read the record, assign one field, save it
SettingsSetter(op, field, value, readFails, fault) ==
  /\ calls > 0
  /\ calls' = calls - 1
  /\ UNCHANGED <<db, inited, diaryStore, now, editor, snapshot, initResolved, list, pending>>
  /\ IF ~db \/ readFails
     THEN /\ ret' = Ret(op, "none", "error", "none", 0)
          /\ UNCHANGED settingsStore
     ELSE IF getSettings = << >>
     THEN /\ ret' = Ret(op, "none", "ok", "none", 0)
          /\ UNCHANGED settingsStore
     ELSE LET saved == saveSettings(Spread(getSettings[1], [f \in {field} |-> value]), fault)
          IN  /\ settingsStore' = saved.store
              /\ ret' = Ret(op, "saveSettings", saved.status, saved.write, 0)

setTheme(theme, readFails, fault) ==
  SettingsSetter("setTheme", "theme", theme, readFails, fault)

setShowTitle(show, readFails, fault) ==
  SettingsSetter("setShowTitle", "showTitle", show, readFails, fault)

updateLastBackup(readFails, fault) ==
  SettingsSetter("updateLastBackup", "lastBackup", <<DateOf(now)>>, readFails, fault)

\* --------------------------------------------------------- entry mutations

\* the ids a caller passes: those of the stored entries and one that may be
\* stale
CallIds == DOMAIN diaryStore \cup {GenId(0, "r1")}

\* createDiary: the store it leaves and how its promise settles
\* (request.onsuccess resolves it, request.onerror rejects it)
createDiaryCall(diary, r, fault) ==
  IF ~db
  THEN [store |-> diaryStore, status |-> "error", write |-> "none", id |-> << >>]
  ELSE [store |-> IF fault = "none"
                  THEN Put(diaryStore, NewEntry(diary, GenId(now, r), now), "id")
                  ELSE diaryStore,
        status |-> IF fault = "request" THEN "error" ELSE "ok",
        write |-> WriteOutcome(fault),
        id |-> IF fault = "request" THEN << >> ELSE <<GenId(now, r)>>]

\* updateDiary writing a record also when getDiary found none
updateDiaryCallUpsert(id, updates, readFails, fault) ==
  IF ~db \/ readFails
  THEN [store |-> diaryStore, status |-> "error", write |-> "none"]
  ELSE LET existing == IF id \in DOMAIN diaryStore
                       THEN normalizeDiaryEntry(diaryStore[id])
                       ELSE NewEntry([title |-> << >>, content |-> << >>], id, now)
       IN  [store |-> IF fault = "none"
                      THEN Put(diaryStore, UpdatedEntry(existing, updates, now), "id")
                      ELSE diaryStore,
            status |-> "ok",
            write |-> WriteOutcome(fault)]

\* updateDiary: getDiary in one transaction, then the put in another, whose
\* promise is resolved as soon as the put is issued
updateDiaryCall(id, updates, readFails, fault) ==
  IF ~db \/ readFails
  THEN [store |-> diaryStore, status |-> "error", write |-> "none"]
  ELSE IF id \notin DOMAIN diaryStore
  THEN [store |-> diaryStore, status |-> "ok", write |-> "none"]
  ELSE [store |-> IF fault = "none"
                  THEN Put(diaryStore,
                           UpdatedEntry(normalizeDiaryEntry(diaryStore[id]), updates, now),
                           "id")
                  ELSE diaryStore,
        status |-> "ok",
        write |-> WriteOutcome(fault)]

createDiary(diary, r, fault) ==
  /\ calls > 0
  /\ calls' = calls - 1
  /\ UNCHANGED <<db, inited, settingsStore, now, editor, snapshot, initResolved, list, pending>>
  /\ LET c == createDiaryCall(diary, r, fault)
     IN  /\ diaryStore' = c.store
         /\ ret' = Ret("createDiary", "createDiary", c.status, c.write, 0)

updateDiary(id, updates, readFails, fault) ==
  /\ calls > 0
  /\ calls' = calls - 1
  /\ UNCHANGED <<db, inited, settingsStore, now, editor, snapshot, initResolved, list, pending>>
  /\ LET u == updateDiaryCall(id, updates, readFails, fault)
     IN  /\ diaryStore' = u.store
         /\ ret' = Ret("updateDiary", "updateDiary", u.status, u.write, 0)

\* toggleStarred and toggleArchived: getDiary, then updateDiary with the
\* flag flipped
Toggle(op, flag, id, readFails, fault) ==
  /\ calls > 0
  /\ calls' = calls - 1
  /\ UNCHANGED <<db, inited, settingsStore, now, editor, snapshot, initResolved, list, pending>>
  /\ IF ~db \/ readFails
     THEN /\ ret' = Ret(op, "none", "error", "none", 0)
          /\ UNCHANGED diaryStore
     ELSE IF id \notin DOMAIN diaryStore
     THEN /\ ret' = Ret(op, "none", "ok", "none", 0)
          /\ UNCHANGED diaryStore
     ELSE LET flipped == ~normalizeDiaryEntry(diaryStore[id])[flag]
              u == updateDiaryCall(id, [f \in {flag} |-> flipped], FALSE, fault)
          IN  /\ diaryStore' = u.store
              /\ ret' = Ret(op, "updateDiary", u.status, u.write, 0)

toggleStarred(id, readFails, fault) ==
  Toggle("toggleStarred", "isStarred", id, readFails, fault)

toggleArchived(id, readFails, fault) ==
  Toggle("toggleArchived", "isArchived", id, readFails, fault)

\* deleteDiary: the promise is resolved as soon as the delete is issued
deleteDiary(id, fault) ==
  /\ calls > 0
  /\ calls' = calls - 1
  /\ UNCHANGED <<db, inited, settingsStore, now, editor, snapshot, initResolved, list, pending>>
  /\ IF ~db
     THEN /\ ret' = Ret("deleteDiary", "deleteDiary", "error", "none", 0)
          /\ UNCHANGED diaryStore
     ELSE /\ diaryStore' = IF fault = "none" THEN Delete(diaryStore, id) ELSE diaryStore
          /\ ret' = Ret("deleteDiary", "deleteDiary", "ok", WriteOutcome(fault), 0)

\* deleteFromStore(storeName, key): the promise is resolved as soon as the
\* delete is issued
deleteFromStore(storeName, key, fault) ==
  /\ calls > 0
  /\ calls' = calls - 1
  /\ UNCHANGED <<db, inited, now, editor, snapshot, initResolved, list, pending>>
  /\ IF ~db
     THEN /\ ret' = Ret("deleteFromStore", "none", "error", "none", 0)
          /\ UNCHANGED <<diaryStore, settingsStore>>
     ELSE /\ ret' = Ret("deleteFromStore", "deleteFromStore", "ok", WriteOutcome(fault), 0)
          /\ IF storeName = "diary"
             THEN /\ diaryStore' = IF fault = "none" THEN Delete(diaryStore, key) ELSE diaryStore
                  /\ UNCHANGED settingsStore
             ELSE /\ settingsStore' = IF fault = "none" THEN Delete(settingsStore, key) ELSE settingsStore
                  /\ UNCHANGED diaryStore

\* the order of Math.random()'s strings
RandRank(r) == IF r = "r1" THEN 1 ELSE 2

\* the order of two keys of the diary store (ids compare as strings)
IdBefore(a, b) == a[1] < b[1] \/ (a[1] = b[1] /\ RandRank(a[2]) < RandRank(b[2]))

\* getAll(): the records of the keys ks in key order
RECURSIVE GetAll(_, _)
GetAll(store, ks) ==
  IF ks = {} THEN << >>
  ELSE LET k == CHOOSE x \in ks : \A y \in ks \ {x} : IdBefore(x, y)
       IN  <<store[k]>> \o GetAll(store, ks \ {k})

\* getAllDiaries(): every record, normalized
getAllDiaries ==
  LET all == GetAll(diaryStore, DOMAIN diaryStore)
  IN  [i \in 1..Len(all) |-> normalizeDiaryEntry(all[i])]

\* ----------------------------------------------------------------- reads

\* what getDiary(id) resolves with, for a stored id
getDiary(store, id) == normalizeDiaryEntry(store[id])

\* a call of getDiary(id): ret.result is what it resolved with, << >> for
\* undefined
getDiaryCall(id, readFails) ==
  /\ calls > 0
  /\ calls' = calls - 1
  /\ UNCHANGED <<db, inited, diaryStore, settingsStore, now, editor, snapshot, initResolved, list, pending>>
  /\ IF ~db \/ readFails
     THEN ret' = Ret("getDiary", "none", "error", "none", 0)
     ELSE ret' = [Ret("getDiary", "none", "ok", "none", 0) EXCEPT
                    !.result = IF id \in DOMAIN diaryStore
                               THEN <<getDiary(diaryStore, id)>> ELSE << >>]

\* a call of getAllDiaries(): ret.result is the array it resolved with
getAllDiariesCall(readFails) ==
  /\ calls > 0
  /\ calls' = calls - 1
  /\ UNCHANGED <<db, inited, diaryStore, settingsStore, now, editor, snapshot, initResolved, list, pending>>
  /\ IF ~db \/ readFails
     THEN ret' = Ret("getAllDiaries", "none", "error", "none", 0)
     ELSE ret' = [Ret("getAllDiaries", "none", "ok", "none", 0) EXCEPT
                    !.result = getAllDiaries]

\* --------------------------------------------------------------- restore

\* the checks without Array.isArray(data.diaries)
BackupShapeOkNoArrayCheck(text) ==
  /\ text.wellFormed
  /\ text.value # << >>
  /\ Has(text.value[1], "diaries")

\* restoreBackup's checks before importData: JSON.parse succeeds, the value
\* is an object (data.diaries of null throws), data.diaries is truthy and
\* Array.isArray(data.diaries)
BackupShapeOk(text) ==
  /\ text.wellFormed
  /\ text.value # << >>
  /\ Has(text.value[1], "diaries")
  /\ Has(text.value[1].diaries, "array")

\* index of the first element of arr whose put throws DataError because the
\* key path 'id' yields no key, or 0
RECURSIVE FirstKeyless(_, _)
FirstKeyless(arr, i) ==
  IF i > Len(arr) THEN 0
  ELSE IF ~Has(arr[i], "id") THEN i
  ELSE FirstKeyless(arr, i + 1)

\* the puts of arr[1..n], in order
RECURSIVE PutAll(_, _, _)
PutAll(store, arr, n) ==
  IF n = 0 THEN store
  ELSE Put(PutAll(store, arr, n - 1), ImportedEntry(arr[n]), "id")

\* what importData's callback does inside its transaction: threw says that
\* it left by an exception (data.diaries.forEach is not a function, or a put
\* threw), so that the requests after that point were never issued and the
\* promise is rejected; diaries and settings are the stores the requests
\* issued until then produce
importData(data) ==
  LET isArray == Has(data, "diaries") /\ Has(data.diaries, "array")
      arr == IF isArray THEN data.diaries.array ELSE << >>
      bad == FirstKeyless(arr, 1)
      threw == ~isArray \/ bad # 0
      issued == IF bad = 0 THEN Len(arr) ELSE bad - 1
  IN  [threw |-> threw,
       diaries |-> PutAll(EmptyStore, arr, issued),
       settings |-> IF ~threw /\ Has(data, "settings")
                    THEN Put(settingsStore, ImportedSettings(data.settings), "key")
                    ELSE settingsStore]

\* restoreBackup(text): any exception becomes the error it throws; the
\* transaction of importData commits what was issued, or aborts as a whole.
\* op and arg are what ret records of the call.
restoreText(text, op, arg, fault) ==
  /\ calls > 0
  /\ calls' = calls - 1
  /\ UNCHANGED <<db, inited, now, editor, snapshot, initResolved, list, pending>>
  /\ IF ~BackupShapeOk(text) \/ ~db
     THEN /\ ret' = Ret(op, "none", "error", "none", arg)
          /\ UNCHANGED <<diaryStore, settingsStore>>
     ELSE LET done == importData(text.value[1])
          IN  /\ diaryStore' = IF fault = "none" THEN done.diaries ELSE diaryStore
              /\ settingsStore' = IF fault = "none" THEN done.settings ELSE settingsStore
              /\ ret' = Ret(op, "importData",
                            IF done.threw THEN "error" ELSE "ok",
                            WriteOutcome(fault), arg)

\* restoreBackup(Texts[i])
restoreBackup(i, fault) == restoreText(Texts[i], "restoreBackup", i, fault)

\* ---------------------------------------------------------------- backup

\* JSON.parse(JSON.stringify(entry)): every Date comes back as its ISO string
StringifyEntry(entry) ==
  Spread(entry,
    [createdAt |-> toISOString(entry.createdAt),
     updatedAt |-> toISOString(entry.updatedAt),
     editHistory |->
       [i \in 1..Len(entry.editHistory) |->
          Spread(entry.editHistory[i],
                 [timestamp |-> toISOString(entry.editHistory[i].timestamp)])]])

\* JSON.parse(JSON.stringify(settings)): lastBackup is null or an ISO string
StringifySettings(settings) ==
  IF Has(settings, "lastBackup") /\ settings.lastBackup # << >>
  THEN Spread(settings, [lastBackup |-> <<toISOString(settings.lastBackup[1])>>])
  ELSE settings

\* the text backupData returns; settings is left out when getSettings
\* resolved with undefined
BackupText ==
  LET diaries == getAllDiaries
      array == [i \in 1..Len(diaries) |-> StringifyEntry(diaries[i])]
      base == [diaries |-> [array |-> array],
               exportDate |-> toISOString(DateOf(now))]
  IN  [wellFormed |-> TRUE,
       value |-> <<IF getSettings = << >> THEN base
                   ELSE Spread(base, [settings |-> StringifySettings(getSettings[1])])>>]

\* backupData(): two reads, no write
backupData(readFails) ==
  /\ calls > 0
  /\ calls' = calls - 1
  /\ UNCHANGED <<db, inited, diaryStore, settingsStore, now, editor, initResolved, list, pending>>
  /\ IF ~db \/ readFails
     THEN /\ ret' = Ret("backupData", "backupData", "error", "none", 0)
          /\ UNCHANGED snapshot
     ELSE /\ ret' = Ret("backupData", "backupData", "ok", "none", 0)
          /\ snapshot' = <<BackupText>>

\* handleExportJSON: backupData, the download, then updateLastBackup; it
\* reports success when neither call threw
handleExportJSON(readFails, updateReadFails, fault) ==
  /\ calls > 0
  /\ calls' = calls - 1
  /\ UNCHANGED <<db, inited, diaryStore, now, editor, initResolved, list, pending>>
  /\ IF ~db \/ readFails
     THEN /\ ret' = Ret("handleExportJSON", "backupData", "error", "none", 0)
          /\ UNCHANGED <<settingsStore, snapshot>>
     ELSE /\ snapshot' = <<BackupText>>
          /\ IF updateReadFails
             THEN /\ ret' = Ret("handleExportJSON", "updateLastBackup", "error", "none", 0)
                  /\ UNCHANGED settingsStore
             ELSE IF getSettings = << >>
             THEN /\ ret' = Ret("handleExportJSON", "updateLastBackup", "ok", "none", 0)
                  /\ UNCHANGED settingsStore
             ELSE LET saved == saveSettings(
                                 Spread(getSettings[1], [lastBackup |-> <<DateOf(now)>>]),
                                 fault)
                  IN  /\ settingsStore' = saved.store
                      /\ ret' = Ret("handleExportJSON", "updateLastBackup",
                                    saved.status, saved.write, 0)

\* restoreBackup(the text the last backupData returned)
restoreSnapshot(fault) ==
  /\ snapshot # << >>
  /\ restoreText(snapshot[1], "restoreSnapshot", 0, fault)

\* ---------------------------------------------------------------- editor

\* the parent opens the editor on a listed entry, or on none for a new one
OpenEditor(target) ==
  /\ calls > 0
  /\ calls' = calls - 1
  /\ target # << >> => db /\ target[1] \in DOMAIN diaryStore
  /\ editor' = [open |-> TRUE,
                diary |-> IF target = << >> THEN << >>
                          ELSE <<normalizeDiaryEntry(diaryStore[target[1]])>>,
                currentId |-> target]
  /\ ret' = Ret("openEditor", "none", "ok", "none", 0)
  /\ UNCHANGED <<db, inited, diaryStore, settingsStore, now, snapshot, initResolved, list, pending>>

\* the update object autoSave passes for an entry opened from the list
AutoSaveUpdates(existingDiary, title, content, t) ==
  IF existingDiary.content # content
  THEN LET oldWordCount == calculateWordCountUtils(existingDiary.content)
           newWordCount == calculateWordCountUtils(content)
           newEditHistory ==
             IF oldWordCount # newWordCount
             THEN Append(existingDiary.editHistory,
                         [timestamp |-> DateOf(t),
                          changes |-> SignedDiff(newWordCount - oldWordCount)])
             ELSE existingDiary.editHistory
       IN  [title |-> Trim(title), content |-> content, updatedAt |-> DateOf(t),
            isEdited |-> Len(newEditHistory) > 0,
            editHistory |-> newEditHistory]
  ELSE [title |-> Trim(title), content |-> content, updatedAt |-> DateOf(t)]

\* the debounce timer fires with title and content typed
autoSave(title, content, r, readFails, fault) ==
  /\ editor.open
  /\ calls > 0
  /\ calls' = calls - 1
  /\ UNCHANGED <<db, inited, settingsStore, now, snapshot, initResolved, list, pending>>
  /\ IF Trim(title) = << >> /\ Trim(content) = << >>
     THEN /\ ret' = Ret("autoSave", "none", "ok", "none", 0)
          /\ UNCHANGED <<diaryStore, editor>>
     ELSE IF editor.currentId # << >>
     THEN IF editor.diary # << >>
          THEN LET u == updateDiaryCall(editor.currentId[1],
                          AutoSaveUpdates(editor.diary[1], title, content, now),
                          readFails, fault)
               IN  /\ diaryStore' = u.store
                   /\ ret' = Ret("autoSave", "updateDiary", u.status, u.write, 0)
                   /\ UNCHANGED editor
          ELSE /\ ret' = Ret("autoSave", "none", "ok", "none", 0)
               /\ UNCHANGED <<diaryStore, editor>>
     ELSE LET c == createDiaryCall([title |-> Trim(title), content |-> content], r, fault)
          IN  /\ diaryStore' = c.store
              /\ ret' = Ret("autoSave", "createDiary", c.status, c.write, 0)
              /\ editor' = IF c.status = "ok"
                           THEN [editor EXCEPT !.currentId = c.id]
                           ELSE editor

\* -------------------------------------------------- operations in flight

\* An operation that reads in one transaction and writes in another is in
\* flight between the two: other calls made meanwhile run their transactions
\* between its read and its write.  pending holds what it will write.

\* updateDiary up to the point where getDiary has resolved and the record to
\* put is built
updateDiaryRead(id, updates, readFails) ==
  /\ calls > 0
  /\ calls' = calls - 1
  /\ pending = << >>
  /\ UNCHANGED <<db, inited, diaryStore, settingsStore, now, editor, snapshot, initResolved, list>>
  /\ IF ~db \/ readFails
     THEN /\ ret' = Ret("updateDiary", "none", "error", "none", 0)
          /\ UNCHANGED pending
     ELSE IF id \notin DOMAIN diaryStore
     THEN /\ ret' = Ret("updateDiary", "none", "ok", "none", 0)
          /\ UNCHANGED pending
     ELSE LET existing == normalizeDiaryEntry(diaryStore[id])
          IN  /\ pending' = <<[op |-> "updateDiary", id |-> id, existing |-> existing,
                               updated |-> UpdatedEntry(existing, updates, now)]>>
              /\ ret' = Ret("updateDiary", "getDiary", "pending", "none", 0)

\* the transaction of updateDiary's put runs and the call returns
updateDiaryWrite(fault) ==
  /\ pending # << >>
  /\ pending[1].op = "updateDiary"
  /\ pending' = << >>
  /\ diaryStore' = IF fault = "none" THEN Put(diaryStore, pending[1].updated, "id")
                   ELSE diaryStore
  /\ ret' = Ret("updateDiary", "updateDiary", "ok", WriteOutcome(fault), 0)
  /\ UNCHANGED <<db, inited, settingsStore, now, calls, editor, snapshot, initResolved, list>>

\* a setter up to the point where getSettings has resolved and the field is
\* assigned
SettingsSetterRead(op, field, value, readFails) ==
  /\ calls > 0
  /\ calls' = calls - 1
  /\ pending = << >>
  /\ UNCHANGED <<db, inited, diaryStore, settingsStore, now, editor, snapshot, initResolved, list>>
  /\ IF ~db \/ readFails
     THEN /\ ret' = Ret(op, "none", "error", "none", 0)
          /\ UNCHANGED pending
     ELSE IF getSettings = << >>
     THEN /\ ret' = Ret(op, "none", "ok", "none", 0)
          /\ UNCHANGED pending
     ELSE /\ pending' = <<[op |-> op, field |-> field,
                           settings |-> Spread(getSettings[1], [f \in {field} |-> value])]>>
          /\ ret' = Ret(op, "getSettings", "pending", "none", 0)

\* the transaction of the setter's saveSettings runs and the call returns
SettingsSetterWrite(fault) ==
  /\ pending # << >>
  /\ pending[1].op \in {"setTheme", "setShowTitle", "updateLastBackup"}
  /\ pending' = << >>
  /\ LET saved == saveSettings(pending[1].settings, fault)
     IN  /\ settingsStore' = saved.store
         /\ ret' = Ret(pending[1].op, "saveSettings", saved.status, saved.write, 0)
  /\ UNCHANGED <<db, inited, diaryStore, now, calls, editor, snapshot, initResolved, list>>

\* the debounce timer fires in a session that holds no id: autoSave up to
\* the point where createDiary has issued its put
autoSaveCreateBegin(title, content, r) ==
  /\ editor.open
  /\ calls > 0
  /\ calls' = calls - 1
  /\ pending = << >>
  /\ db
  /\ ~(Trim(title) = << >> /\ Trim(content) = << >>)
  /\ editor.currentId = << >>
  /\ pending' = <<[op |-> "createDiary", id |-> GenId(now, r),
                   entry |-> NewEntry([title |-> Trim(title), content |-> content],
                                      GenId(now, r), now)]>>
  /\ ret' = Ret("autoSave", "createDiary", "pending", "none", 0)
  /\ UNCHANGED <<db, inited, diaryStore, settingsStore, now, editor, snapshot, initResolved, list>>

\* createDiary's transaction has run, its promise settles and autoSave
\* stores the id it returned in currentDiaryIdRef
autoSaveCreateEnd(fault) ==
  /\ pending # << >>
  /\ pending[1].op = "createDiary"
  /\ pending' = << >>
  /\ diaryStore' = IF fault = "none" THEN Put(diaryStore, pending[1].entry, "id")
                   ELSE diaryStore
  /\ editor' = IF fault = "request" THEN editor
               ELSE [editor EXCEPT !.currentId = <<pending[1].id>>]
  /\ ret' = Ret("autoSave", "createDiary",
                IF fault = "request" THEN "error" ELSE "ok", WriteOutcome(fault), 0)
  /\ UNCHANGED <<db, inited, settingsStore, now, calls, snapshot, initResolved, list>>

\* ------------------------------------------------------------- list view

\* Math.min and Math.max of two integers
Min2(a, b) == IF a < b THEN a ELSE b

Max2(a, b) == IF a > b THEN a ELSE b

\* a cap that is applied before the floor of pageSize, not after it
clampVisibleCountCapFirst(saved, opts) ==
  LET s == IF saved.finite THEN saved.halves \div 2 ELSE opts.pageSize
      min == Max2(opts.pageSize, 1)
      capped == Max2(Min2(s, opts.maxInitial), min)
  IN  IF opts.total # << >> /\ opts.total[1].finite
      THEN Min2(capped, opts.total[1].value)
      ELSE capped

\* clampVisibleCount(saved, {pageSize, maxInitial, total}); total is << >>
\* when it is not given, else <<[finite |-> .., value |-> ..]>>
clampVisibleCount(saved, opts) ==
  LET s == IF saved.finite THEN saved.halves \div 2 ELSE opts.pageSize
      min == Max2(opts.pageSize, 1)
      capped == Min2(Max2(s, min), opts.maxInitial)
  IN  IF opts.total # << >> /\ opts.total[1].finite
      THEN Min2(capped, opts.total[1].value)
      ELSE capped

\* the saved counts.  A saved count is a number that is a multiple of one
\* half, [finite |-> TRUE, halves |-> h] being h / 2, or is not finite (NaN,
\* Infinity); Math.floor of h / 2 is h \div 2.  They range from -1/2 to
\* MaxClamp + 3/2.
SavedCounts ==
  {[finite |-> FALSE, halves |-> 0]}
    \cup {[finite |-> TRUE, halves |-> h] : h \in -1..(2 * MaxClamp + 3)}

\* the totals: not given, not finite, or 0..MaxClamp + 1
Totals ==
  {<< >>, <<[finite |-> FALSE, value |-> 0]>>}
    \cup {<<[finite |-> TRUE, value |-> n]>> : n \in 0..(MaxClamp + 1)}

\* the list view restores its count
RestoreVisibleCount ==
  /\ list.visible = << >>
  /\ list' = [list EXCEPT !.visible =
                <<clampVisibleCount(list.saved,
                    [pageSize |-> list.pageSize, maxInitial |-> list.maxInitial,
                     total |-> list.total])>>]
  /\ UNCHANGED <<db, inited, diaryStore, settingsStore, now, calls, editor, ret, snapshot,
                 initResolved, pending>>

\* ------------------------------------------------------------ behaviours

Init == InitWith(MaxCalls)

InitStep ==
  \E support \in {"unsupported", "openError", "opened"}, readFails \in BOOLEAN,
     fault \in Faults : init(support, readFails, fault)

SetThemeStep ==
  \E theme \in {"light", "dark"}, readFails \in BOOLEAN, fault \in Faults :
     setTheme(theme, readFails, fault)

SetShowTitleStep ==
  \E show \in BOOLEAN, readFails \in BOOLEAN, fault \in Faults :
     setShowTitle(show, readFails, fault)

UpdateLastBackupStep ==
  \E readFails \in BOOLEAN, fault \in Faults : updateLastBackup(readFails, fault)

CreateStep ==
  \E title \in Titles, content \in Contents, r \in Rands, fault \in Faults :
     \/ createDiary([title |-> title, content |-> content], r, fault)
     \/ \E createdAt \in SuppliedDates :
          createDiary([title |-> title, content |-> content, createdAt |-> createdAt],
                      r, fault)

UpdateStep ==
  \E id \in CallIds, i \in 1..Len(Updates), readFails \in BOOLEAN, fault \in Faults :
     updateDiary(id, Updates[i], readFails, fault)

ToggleStarredStep ==
  \E id \in CallIds, readFails \in BOOLEAN, fault \in Faults :
     toggleStarred(id, readFails, fault)

ToggleArchivedStep ==
  \E id \in CallIds, readFails \in BOOLEAN, fault \in Faults :
     toggleArchived(id, readFails, fault)

DeleteStep == \E id \in CallIds, fault \in Faults : deleteDiary(id, fault)

DeleteFromStoreStep ==
  \E fault \in Faults :
     \/ \E key \in CallIds : deleteFromStore("diary", key, fault)
     \/ \E key \in {"app"} : deleteFromStore("settings", key, fault)

RestoreStep == \E i \in 1..Len(Texts), fault \in Faults : restoreBackup(i, fault)

OpenEditorStep ==
  \E target \in {<< >>} \cup {<<id>> : id \in DOMAIN diaryStore} : OpenEditor(target)

AutoSaveStep ==
  \E title \in TypedTitles, content \in Contents, r \in Rands,
     readFails \in BOOLEAN, fault \in Faults :
     autoSave(title, content, r, readFails, fault)

BackupDataStep == \E readFails \in BOOLEAN : backupData(readFails)

ExportStep ==
  \E readFails \in BOOLEAN, updateReadFails \in BOOLEAN, fault \in Faults :
     handleExportJSON(readFails, updateReadFails, fault)

RestoreSnapshotStep == \E fault \in Faults : restoreSnapshot(fault)

\* every operation, called in any order with any of the inputs
Next ==
  \/ Tick
  \/ InitStep
  \/ SetThemeStep
  \/ SetShowTitleStep
  \/ UpdateLastBackupStep
  \/ CreateStep
  \/ UpdateStep
  \/ ToggleStarredStep
  \/ ToggleArchivedStep
  \/ DeleteStep
  \/ DeleteFromStoreStep
  \/ RestoreStep
  \/ BackupDataStep
  \/ ExportStep
  \/ RestoreSnapshotStep
  \/ OpenEditorStep
  \/ AutoSaveStep

Spec == Init /\ [][Next]_vars

\* createDiary as the editor calls it: a title and a content, no createdAt
CreateNowStep ==
  \E title \in Titles, content \in Contents, r \in Rands, fault \in Faults :
     createDiary([title |-> title, content |-> content], r, fault)

\* the backup screen: entries are created, the theme is set, snapshots of
\* every shape are restored
NextRestore ==
  \/ Tick
  \/ InitStep
  \/ CreateNowStep
  \/ SetThemeStep
  \/ DeleteFromStoreStep
  \/ RestoreStep

SpecRestore == InitWith(MaxRestoreCalls) /\ [][NextRestore]_vars

\* updateDiary called with an update object of the declared type
TypedUpdateStep ==
  \E id \in CallIds, i \in 1..Len(TypedUpdates), readFails \in BOOLEAN, fault \in Faults :
     updateDiary(id, TypedUpdates[i], readFails, fault)

\* the entry operations as type-correct callers use them
NextEntries ==
  \/ Tick
  \/ InitStep
  \/ CreateStep
  \/ TypedUpdateStep
  \/ ToggleStarredStep
  \/ ToggleArchivedStep
  \/ DeleteStep

SpecEntries == Init /\ [][NextEntries]_vars

\* the editor: it is opened on a new entry or on a listed one, and autosaves
NextEditor ==
  \/ Tick
  \/ InitStep
  \/ OpenEditorStep
  \/ AutoSaveStep

SpecEditor == InitWith(MaxEditorCalls) /\ [][NextEditor]_vars

\* createDiary of an entry without a title
CreateUntitledStep ==
  \E content \in Contents, r \in Rands, fault \in Faults :
     createDiary([title |-> << >>, content |-> content], r, fault)

\* export and restore: entries are created and deleted, snapshots are
\* exported and restored
NextBackup ==
  \/ Tick
  \/ InitStep
  \/ CreateUntitledStep
  \/ DeleteStep
  \/ BackupDataStep
  \/ ExportStep
  \/ RestoreSnapshotStep

SpecBackup == InitWith(MaxBackupCalls) /\ [][NextBackup]_vars

\* updateDiary called with any update object on entries created without a
\* title, some of them deleted since
NextUpdate ==
  \/ Tick
  \/ InitStep
  \/ CreateUntitledStep
  \/ UpdateStep
  \/ DeleteStep

SpecUpdate == InitWith(MaxUpdateCalls) /\ [][NextUpdate]_vars

GetDiaryStep ==
  \E id \in CallIds, readFails \in BOOLEAN : getDiaryCall(id, readFails)

GetAllDiariesStep == \E readFails \in BOOLEAN : getAllDiariesCall(readFails)

\* a database that holds records of an older schema
InitLegacy ==
  /\ db = FALSE
  /\ inited = FALSE
  /\ diaryStore \in LegacyStores
  /\ settingsStore = EmptyStore
  /\ now = 0
  /\ calls = MaxLegacyCalls
  /\ editor = [open |-> FALSE, diary |-> << >>, currentId |-> << >>]
  /\ ret = Ret("none", "none", "ok", "none", 0)
  /\ snapshot = << >>
  /\ initResolved = FALSE
  /\ list = NoList
  /\ pending = << >>

\* entries are read from it and created in it
NextLegacy ==
  \/ Tick
  \/ InitStep
  \/ CreateUntitledStep
  \/ GetDiaryStep
  \/ GetAllDiariesStep

SpecLegacy == InitLegacy /\ [][NextLegacy]_vars

\* the settings screen: the three setters, on a store whose settings record
\* may have been deleted, with entries stored
NextSettings ==
  \/ Tick
  \/ InitStep
  \/ CreateUntitledStep
  \/ SetThemeStep
  \/ SetShowTitleStep
  \/ UpdateLastBackupStep
  \/ DeleteFromStoreStep

SpecSettings == InitWith(MaxSettingsCalls) /\ [][NextSettings]_vars

\* a list view with any saved count, positive page size and cap, any total
InitClamp ==
  /\ db = FALSE
  /\ inited = FALSE
  /\ diaryStore = EmptyStore
  /\ settingsStore = EmptyStore
  /\ now = 0
  /\ calls = 0
  /\ editor = [open |-> FALSE, diary |-> << >>, currentId |-> << >>]
  /\ ret = Ret("none", "none", "ok", "none", 0)
  /\ snapshot = << >>
  /\ initResolved = FALSE
  /\ pending = << >>
  /\ \E saved \in SavedCounts, pageSize \in 1..MaxClamp, maxInitial \in 1..MaxClamp,
        total \in Totals :
        list = [saved |-> saved, pageSize |-> pageSize, maxInitial |-> maxInitial,
                total |-> total, visible |-> << >>]

NextClamp == RestoreVisibleCount

SpecClamp == InitClamp /\ [][NextClamp]_vars

UpdateReadStep ==
  \E id \in CallIds, i \in 1..Len(TypedUpdates), readFails \in BOOLEAN :
     updateDiaryRead(id, TypedUpdates[i], readFails)

UpdateWriteStep == \E fault \in Faults : updateDiaryWrite(fault)

\* a database that holds entries already
InitRace ==
  /\ db = FALSE
  /\ inited = FALSE
  /\ diaryStore \in LegacyStores
  /\ settingsStore = EmptyStore
  /\ now = 0
  /\ calls = MaxRaceCalls
  /\ editor = [open |-> FALSE, diary |-> << >>, currentId |-> << >>]
  /\ ret = Ret("none", "none", "ok", "none", 0)
  /\ snapshot = << >>
  /\ initResolved = FALSE
  /\ list = NoList
  /\ pending = << >>

\* calls made while an updateDiary is between its read and its write
NextRace ==
  \/ Tick
  \/ InitStep
  \/ UpdateReadStep
  \/ UpdateWriteStep
  \/ ToggleStarredStep
  \/ DeleteStep

SpecRace == InitRace /\ [][NextRace]_vars

SetterReadStep ==
  \E readFails \in BOOLEAN :
     \/ \E theme \in {"light", "dark"} :
          SettingsSetterRead("setTheme", "theme", theme, readFails)
     \/ \E show \in BOOLEAN :
          SettingsSetterRead("setShowTitle", "showTitle", show, readFails)
     \/ SettingsSetterRead("updateLastBackup", "lastBackup", <<DateOf(now)>>, readFails)

SetterWriteStep == \E fault \in Faults : SettingsSetterWrite(fault)

\* setters called while another setter is between its read and its write
NextSetterRace ==
  \/ Tick
  \/ InitStep
  \/ SetterReadStep
  \/ SetterWriteStep
  \/ SetThemeStep
  \/ SetShowTitleStep
  \/ UpdateLastBackupStep

SpecSetterRace == InitWith(MaxRaceCalls) /\ [][NextSetterRace]_vars

\* the editor is opened once, on a new entry
OpenNewOnceStep == ~editor.open /\ OpenEditor(<< >>)

AutoSaveCreateBeginStep ==
  \E title \in TypedTitles, content \in Contents, r \in Rands :
     autoSaveCreateBegin(title, content, r)

AutoSaveCreateEndStep == \E fault \in Faults : autoSaveCreateEnd(fault)

\* one editor session for a new entry: the timer may fire again while the
\* createDiary of an earlier autosave has not returned
NextSession ==
  \/ Tick
  \/ InitStep
  \/ OpenNewOnceStep
  \/ AutoSaveStep
  \/ AutoSaveCreateBeginStep
  \/ AutoSaveCreateEndStep

SpecSession == InitWith(MaxRaceCalls) /\ [][NextSession]_vars

\* a step that is a call (init and the clock leave calls alone)
IsCall == calls' # calls

\* a step that is a call of init(): the last call is init, and neither the
\* clock nor the budget of calls moved
IsInit == ret'.op = "init" /\ calls' = calls /\ now' = now

\* ---------------------------------------------------------------- claims

\* a step in which updateDiary ran (called directly, by a toggle or by the
\* editor's autosave)
IsUpdate == IsCall /\ ret'.svc = "updateDiary"

\* the entries present before and after a step
Kept == DOMAIN diaryStore \cap DOMAIN diaryStore'

\* C1: in every reachable state every stored entry's wordCount equals the
\* service's word count of that entry's current content.
C1_WordCountMatchesContent ==
  \A k \in DOMAIN diaryStore :
     diaryStore[k].wordCount = calculateWordCount(diaryStore[k].content)

\* C2: a createDiary, updateDiary or deleteDiary whose promise resolved has
\* committed the write it issued.
C2_MutationFailureReported ==
  (ret.svc \in {"createDiary", "updateDiary", "deleteDiary"} /\ ret.status = "ok")
     => ret.write # "aborted"

\* the entries collection holds exactly the snapshot's entries
C3_EntriesAreSnapshot(data) ==
  LET arr == data.diaries.array
  IN  /\ \A i \in 1..Len(arr) : Has(arr[i], "id")
      /\ DOMAIN diaryStore' = {arr[i].id : i \in 1..Len(arr)}
      /\ \A i \in 1..Len(arr) :
           \E j \in i..Len(arr) :
              arr[j].id = arr[i].id /\ diaryStore'[arr[i].id] = ImportedEntry(arr[j])

\* some settings record carries every field of the snapshot's settings
C3_SettingsAreSnapshot(data) ==
  Has(data, "settings") =>
     \E k \in DOMAIN settingsStore' :
        \A f \in DOMAIN data.settings \ {"key"} :
           Has(settingsStore'[k], f) /\ settingsStore'[k][f] = data.settings[f]

\* C3: after restoreBackup returns or throws, either the entries equal the
\* snapshot's and the settings reflect the snapshot's, or both collections
\* are as before the call; and it resolves only in the first case.
C3_RestoreAllOrNothing ==
  [][(IsCall /\ ret'.op = "restoreBackup" /\ BackupShapeOk(Texts[ret'.arg]) /\ db) =>
       LET data == Texts[ret'.arg].value[1]
           whole == C3_EntriesAreSnapshot(data) /\ C3_SettingsAreSnapshot(data)
           untouched == diaryStore' = diaryStore /\ settingsStore' = settingsStore
       IN  /\ whole \/ untouched
           /\ ret'.status = "ok" => whole]_vars

\* the text is not well-formed JSON, or its diaries field is missing or is
\* not an array
C4_Malformed(text) ==
  \/ ~text.wellFormed
  \/ text.value = << >>
  \/ ~Has(text.value[1], "diaries")
  \/ ~Has(text.value[1].diaries, "array")

\* C4: restoreBackup of a malformed text throws and leaves every entry and
\* the settings record as they were.
C4_InvalidRestoreLeavesStore ==
  [][(IsCall /\ ret'.op = "restoreBackup" /\ C4_Malformed(Texts[ret'.arg])) =>
       /\ ret'.status = "error"
       /\ diaryStore' = diaryStore
       /\ settingsStore' = settingsStore]_vars

\* a malformed text was refused while entries and settings were stored
C4_Witness ==
  /\ ret.op = "restoreBackup"
  /\ C4_Malformed(Texts[ret.arg])
  /\ ret.status = "error"
  /\ db
  /\ DOMAIN diaryStore # {}
  /\ "app" \in DOMAIN settingsStore

\* C5: once initialization has succeeded, exactly one settings record, under
\* the key 'app', exists in every reachable state.
C5_SettingsSingleton ==
  inited => DOMAIN settingsStore = {"app"}

\* C6: updateDiary changes no entry's id or createdAt and creates no record
\* under another id.
C6_UpdateKeepsIdAndCreatedAt ==
  [][IsUpdate =>
       /\ DOMAIN diaryStore' = DOMAIN diaryStore
       /\ \A k \in Kept :
            /\ diaryStore'[k].id = diaryStore[k].id
            /\ parseDate(diaryStore'[k].createdAt) = parseDate(diaryStore[k].createdAt)]_vars

\* C7: no updateDiary, toggle or autosave turns an entry's isEdited from true
\* to false.
C7_IsEditedNeverReverts ==
  [][IsUpdate =>
       \A k \in Kept :
          normalizeDiaryEntry(diaryStore[k]).isEdited
             => normalizeDiaryEntry(diaryStore'[k]).isEdited]_vars

\* C8: an update that changes an entry's content appends exactly one record
\* to its editHistory when the word count of the new content differs from
\* that of the content stored before, its changes being the signed
\* difference, and appends none otherwise.
C8_HistoryGrowsWithWordCount ==
  [][IsUpdate =>
       \A k \in Kept :
          LET before == normalizeDiaryEntry(diaryStore[k])
              after == normalizeDiaryEntry(diaryStore'[k])
              oldCount == calculateWordCount(before.content)
              newCount == calculateWordCount(after.content)
          IN  after.content # before.content =>
                IF newCount # oldCount
                THEN /\ Len(after.editHistory) = Len(before.editHistory) + 1
                     /\ after.editHistory[Len(after.editHistory)].changes
                          = SignedDiff(newCount - oldCount)
                ELSE Len(after.editHistory) = Len(before.editHistory)]_vars

\* C9: across every updateDiary the editHistory stored before is a prefix of
\* the editHistory stored after, and its timestamps never decrease.
C9_HistoryAppendOnly ==
  [][IsUpdate =>
       \A k \in Kept :
          LET before == normalizeDiaryEntry(diaryStore[k]).editHistory
              after == normalizeDiaryEntry(diaryStore'[k]).editHistory
          IN  /\ Len(before) <= Len(after)
              /\ SubSeq(after, 1, Len(before)) = before
              /\ \A i \in 1..Len(after) - 1 :
                   after[i].timestamp.ms <= after[i + 1].timestamp.ms]_vars

\* C10: every stored entry has updatedAt >= createdAt.
C10_UpdatedNotBeforeCreated ==
  \A k \in DOMAIN diaryStore :
     parseDate(diaryStore[k].updatedAt).ms >= parseDate(diaryStore[k].createdAt).ms

\* C11: every updateDiary of a stored entry that returns success leaves the
\* entry's updatedAt at the current time, whatever updatedAt the caller
\* supplied; when the update holds nothing but a content equal to the stored
\* content, wordCount, isEdited and editHistory are as before.
C11_UpdateRefreshesUpdatedAt ==
  [][\A id \in DOMAIN diaryStore, i \in 1..Len(TypedUpdates), fault \in Faults :
       (db /\ updateDiary(id, TypedUpdates[i], FALSE, fault) /\ ret'.status = "ok") =>
          LET before == normalizeDiaryEntry(diaryStore[id])
              after == normalizeDiaryEntry(diaryStore'[id])
              updates == TypedUpdates[i]
          IN  /\ after.updatedAt = DateOf(now)
              /\ (DOMAIN updates = {"content"} /\ updates.content = before.content) =>
                    /\ after.wordCount = before.wordCount
                    /\ after.isEdited = before.isEdited
                    /\ after.editHistory = before.editHistory]_vars

\* C12: after a restoreBackup of a snapshot that holds a settings object has
\* returned, the settings store holds one record, under 'app'; every field of
\* the snapshot's settings other than key has the snapshot's value in it, and
\* every other field of the record stored before has the value it had.
C12_RestoreMergesSettings ==
  [][(IsCall /\ ret'.op = "restoreBackup" /\ ret'.status = "ok"
        /\ Has(Texts[ret'.arg].value[1], "settings")) =>
       LET settings == Texts[ret'.arg].value[1].settings
           before == IF "app" \in DOMAIN settingsStore
                     THEN settingsStore["app"] ELSE [key |-> "app"]
       IN  /\ DOMAIN settingsStore' = {"app"}
           /\ LET after == settingsStore'["app"]
              IN  /\ \A f \in DOMAIN settings \ {"key"} :
                        Has(after, f) /\ after[f] = settings[f]
                  /\ \A f \in DOMAIN before \ (DOMAIN settings \ {"key"}) :
                        IF Has(after, f) THEN after[f] = before[f]
                        ELSE f = "lastBackup" /\ before[f] = << >>]_vars

\* C13: after a restoreBackup that returned, the ids stored are exactly the
\* ids of the snapshot's diaries array (no entry stored before survives
\* unless the snapshot holds it), and every stored entry has isStarred,
\* isArchived and isEdited false and editHistory empty where its snapshot
\* element has none.
C13_RestoreReplaces ==
  [][(IsCall /\ ret'.op = "restoreBackup" /\ ret'.status = "ok") =>
       LET arr == Texts[ret'.arg].value[1].diaries.array
       IN  /\ \A i \in 1..Len(arr) : Has(arr[i], "id")
           /\ DOMAIN diaryStore' = {arr[i].id : i \in 1..Len(arr)}
           /\ \A i \in 1..Len(arr) :
                LET stored == diaryStore'[arr[i].id]
                IN  /\ \A f \in {"isStarred", "isArchived", "isEdited"} :
                          Has(stored, f) /\ stored[f] = OrDefault(arr[i], f, FALSE)
                    /\ Has(stored, "editHistory")
                    /\ stored.editHistory = OrDefault(arr[i], "editHistory", << >>)]_vars

\* what getLastBackup() returns for a settings store: settings?.lastBackup || null
LastBackupOf(store) ==
  IF "app" \in DOMAIN store THEN OrDefault(store["app"], "lastBackup", << >>) ELSE << >>

\* C14: a backupData that returned has set lastBackup to the current time;
\* and a restoreBackup of the text backupData returned, into an empty store,
\* stores exactly the exported entries, with their ids, contents and flags,
\* and leaves lastBackup as it was unless the snapshot's settings hold a
\* lastBackup value.
C14_ExportRestoreRoundTrip ==
  [][/\ (IsCall /\ ret'.op = "backupData" /\ ret'.status = "ok") =>
          LastBackupOf(settingsStore') = <<DateOf(now)>>
     /\ (IsCall /\ ret'.op = "restoreSnapshot" /\ ret'.status = "ok"
           /\ diaryStore = EmptyStore) =>
          LET data == snapshot[1].value[1]
              arr == data.diaries.array
          IN  /\ Cardinality(DOMAIN diaryStore') = Len(arr)
              /\ \A i \in 1..Len(arr) :
                   /\ arr[i].id \in DOMAIN diaryStore'
                   /\ \A f \in {"id", "content", "isStarred", "isArchived", "isEdited"} :
                        diaryStore'[arr[i].id][f] = arr[i][f]
              /\ (~Has(data, "settings") \/ LastBackupOf([app |-> data.settings]) = << >>) =>
                   LastBackupOf(settingsStore') = LastBackupOf(settingsStore)]_vars

\* C15: when a call has come back with a snapshot from backupData, the
\* settings' lastBackup is a time not earlier than the start of the call;
\* when backupData failed, lastBackup is what it was.
C15_ExportSetsLastBackup ==
  [][/\ (IsCall /\ ((ret'.op = "backupData" /\ ret'.status = "ok")
                     \/ (ret'.op = "handleExportJSON" /\ ret'.svc = "updateLastBackup"))) =>
          /\ LastBackupOf(settingsStore') # << >>
          /\ parseDate(LastBackupOf(settingsStore')[1]).ms >= now
     /\ (IsCall /\ ret'.svc = "backupData" /\ ret'.status = "error") =>
          LastBackupOf(settingsStore') = LastBackupOf(settingsStore)]_vars

\* the entry points that are public operations of the service
ServiceOps ==
  {"setTheme", "setShowTitle", "updateLastBackup", "createDiary", "updateDiary",
   "toggleStarred", "toggleArchived", "deleteDiary", "deleteFromStore",
   "restoreBackup", "restoreSnapshot", "backupData"}

\* C16: an operation of the service called while no init() has succeeded
\* fails with an error, changes neither store and leaves the service
\* uninitialized.
C16_FailsBeforeInit ==
  [][(IsCall /\ ret'.op \in ServiceOps /\ ~initResolved) =>
       /\ ret'.status = "error"
       /\ diaryStore' = diaryStore
       /\ settingsStore' = settingsStore
       /\ db' = db
       /\ ~initResolved']_vars

\* C17: a createDiary that stores its record does so under an id no stored
\* entry has: the store has one entry more and every entry stored before is
\* as it was.
C17_CreateUsesFreshId ==
  [][\A title \in Titles, content \in Contents, r \in Rands :
       (db /\ createDiary([title |-> title, content |-> content], r, "none")) =>
          /\ GenId(now, r) \notin DOMAIN diaryStore
          /\ Cardinality(DOMAIN diaryStore') = Cardinality(DOMAIN diaryStore) + 1
          /\ \A k \in DOMAIN diaryStore : diaryStore'[k] = diaryStore[k]]_vars

\* the objects callers pass to createDiary
Diaries ==
  {[title |-> title, content |-> content] : title \in Titles, content \in Contents}
    \cup {[title |-> title, content |-> content, createdAt |-> createdAt] :
             title \in Titles, content \in Contents, createdAt \in SuppliedDates}

\* C18: when createDiary has returned an id, getDiary of that id returns an
\* entry with the title and the content passed, the word count of the
\* content, createdAt the date passed (the current time when none was),
\* updatedAt equal to createdAt, the three flags false and no edit history.
C18_CreateThenGet ==
  [][\A diary \in Diaries, r \in Rands, fault \in Faults :
       (db /\ createDiary(diary, r, fault) /\ ret'.status = "ok") =>
          /\ GenId(now, r) \in DOMAIN diaryStore'
          /\ LET entry == getDiary(diaryStore', GenId(now, r))
             IN  /\ entry.title = diary.title
                 /\ entry.content = diary.content
                 /\ entry.wordCount = calculateWordCount(diary.content)
                 /\ entry.createdAt = OrDefault(diary, "createdAt", DateOf(now))
                 /\ entry.updatedAt = entry.createdAt
                 /\ ~entry.isStarred /\ ~entry.isArchived /\ ~entry.isEdited
                 /\ entry.editHistory = << >>]_vars

ToggleFrame(flag) ==
  {"id", "title", "content", "wordCount", "createdAt", "isEdited", "editHistory",
   "isStarred", "isArchived"} \ {flag}

\* C20: toggleStarred and toggleArchived of a stored entry, when they
\* return, have flipped that flag and left the entry's id, title, content,
\* wordCount, createdAt, isEdited, editHistory and other flag, and every
\* other entry, as they were; of an id that is not stored they return
\* success and change nothing.
C20_ToggleFlipsOneFlag ==
  [][(IsCall /\ ret'.op \in {"toggleStarred", "toggleArchived"} /\ db) =>
       \A id \in CallIds, fault \in Faults :
          LET flag == IF ret'.op = "toggleStarred" THEN "isStarred" ELSE "isArchived"
          IN  Toggle(ret'.op, flag, id, FALSE, fault) =>
                /\ ret'.status = "ok"
                /\ DOMAIN diaryStore' = DOMAIN diaryStore
                /\ \A k \in DOMAIN diaryStore \ {id} : diaryStore'[k] = diaryStore[k]
                /\ id \in DOMAIN diaryStore =>
                     LET before == normalizeDiaryEntry(diaryStore[id])
                         after == normalizeDiaryEntry(diaryStore'[id])
                     IN  /\ after[flag] = ~before[flag]
                         /\ \A f \in ToggleFrame(flag) : after[f] = before[f]]_vars

\* a stored record of the older schema
LegacyShape(raw) ==
  ~Has(raw, "isStarred") /\ ~Has(raw, "isArchived") /\ ~Has(raw, "editHistory")

\* entry is raw with the two flags false and no edit history; every field raw
\* holds has its value, a date being the Date of the stored instant
ReturnedWithDefaults(raw, entry) ==
  /\ Has(entry, "isStarred") /\ entry.isStarred = FALSE
  /\ Has(entry, "isArchived") /\ entry.isArchived = FALSE
  /\ Has(entry, "editHistory") /\ entry.editHistory = << >>
  /\ \A f \in DOMAIN raw :
       /\ Has(entry, f)
       /\ entry[f] = IF f \in {"createdAt", "updatedAt"} THEN parseDate(raw[f]) ELSE raw[f]

\* C21: getDiary of a stored id and getAllDiaries return every record asked
\* for, and a stored record without isStarred, isArchived and editHistory is
\* returned with isStarred and isArchived false, an empty editHistory and
\* every field it holds unchanged.
C21_LegacyReadDefaults ==
  [][(IsCall /\ ret'.op \in {"getDiary", "getAllDiaries"} /\ ret'.status = "ok") =>
       /\ ret'.op = "getAllDiaries" =>
            {ret'.result[i].id : i \in 1..Len(ret'.result)} = DOMAIN diaryStore
       /\ ret'.op = "getDiary" =>
            \A id \in DOMAIN diaryStore :
               getDiaryCall(id, FALSE) => (ret'.result # << >> /\ ret'.result[1].id = id)
       /\ \A i \in 1..Len(ret'.result) :
            LET entry == ret'.result[i]
            IN  LegacyShape(diaryStore[entry.id]) =>
                   ReturnedWithDefaults(diaryStore[entry.id], entry)]_vars

\* getAllDiaries has returned two records of the older schema, one of them
\* with ISO strings for dates
C21_Witness ==
  /\ ret.op = "getAllDiaries"
  /\ ret.status = "ok"
  /\ Len(ret.result) >= 2
  /\ \E k \in DOMAIN diaryStore : LegacyShape(diaryStore[k]) /\ diaryStore[k].createdAt.iso

\* C22: init() called while the database handle is set returns success,
\* issues no request, keeps the handle and leaves every entry and the
\* settings record as they were.
C22_InitIdempotent ==
  [][(IsInit /\ db) =>
       /\ ret'.status = "ok"
       /\ ret'.write = "none"
       /\ db' = db
       /\ diaryStore' = diaryStore
       /\ settingsStore' = settingsStore]_vars

\* init() has returned on a service that was initialized before, whose
\* store holds entries and whose settings record has gone
C22_Witness ==
  /\ db
  /\ ret.op = "init"
  /\ ret.status = "ok"
  /\ ret.write = "none"
  /\ diaryStore # EmptyStore
  /\ "app" \notin DOMAIN settingsStore

\* the settings setters
SetterOps == {"setTheme", "setShowTitle", "updateLastBackup"}

\* C23: on an open database that holds no settings record, setTheme,
\* setShowTitle and updateLastBackup return normally, create no settings
\* record and leave the entries as they were.
C23_SetterWithoutRecord ==
  [][(IsCall /\ ret'.op \in SetterOps /\ db /\ getSettings = << >>) =>
       \A fault \in Faults :
          (\/ \E theme \in {"light", "dark"} : setTheme(theme, FALSE, fault)
           \/ \E show \in BOOLEAN : setShowTitle(show, FALSE, fault)
           \/ updateLastBackup(FALSE, fault)) =>
             /\ ret'.status = "ok"
             /\ settingsStore' = settingsStore
             /\ diaryStore' = diaryStore]_vars

\* a setter has returned on an open database that holds entries and no
\* settings record
C23_Witness ==
  /\ db
  /\ ret.op \in SetterOps
  /\ ret.status = "ok"
  /\ settingsStore = EmptyStore
  /\ diaryStore # EmptyStore

\* C24: the count clampVisibleCount returns is never below pageSize unless
\* total is smaller than pageSize, for every finite saved count and every
\* positive pageSize and maxInitial; when total is smaller the count is total.
C24_NeverBelowPageSize ==
  (list.visible # << >> /\ list.saved.finite) =>
     IF list.total # << >> /\ list.total[1].finite /\ list.total[1].value < list.pageSize
     THEN list.visible[1] = list.total[1].value
     ELSE list.visible[1] >= list.pageSize

C26_UpdateReadWriteAtomic ==
  [][(pending # << >> /\ pending' = << >> /\ ret'.svc = "updateDiary") =>
       /\ pending[1].id \in DOMAIN diaryStore
       /\ normalizeDiaryEntry(diaryStore[pending[1].id]) = pending[1].existing]_vars

\* C27: an autosave that fires with a title or a content typed and ends with
\* status 'saved', its write (if it issued one) not aborted, has stored the
\* title and the content typed in the entry whose id the session holds.
C27_SavedMeansPersisted ==
  [][(IsCall /\ ret'.op = "autoSave" /\ ret'.status = "ok" /\ ret'.write # "aborted") =>
       \A title \in TypedTitles, content \in Contents, r \in Rands,
          readFails \in BOOLEAN, fault \in Faults :
          (/\ autoSave(title, content, r, readFails, fault)
           /\ ~(Trim(title) = << >> /\ Trim(content) = << >>)) =>
             /\ editor'.currentId # << >>
             /\ editor'.currentId[1] \in DOMAIN diaryStore'
             /\ diaryStore'[editor'.currentId[1]].title = Trim(title)
             /\ diaryStore'[editor'.currentId[1]].content = content]_vars

\* C28: one editor session for a new entry stores at most one entry.
C28_OneEntryPerSession ==
  Cardinality(DOMAIN diaryStore) <= 1

\* C29: when the write of a setter that was in flight takes effect, every
\* other field of the settings record keeps the value stored at that moment,
\* so that a setter of another field that completed meanwhile is not undone.
C29_SettersBothTakeEffect ==
  [][(pending # << >> /\ pending' = << >> /\ ret'.svc = "saveSettings"
        /\ ret'.write = "committed" /\ "app" \in DOMAIN settingsStore) =>
       \A g \in DOMAIN settingsStore["app"] \ {pending[1].field} :
          /\ Has(settingsStore'["app"], g)
          /\ settingsStore'["app"][g] = settingsStore["app"][g]]_vars

\* C30: an init() that resolves leaves the settings record in the store, and
\* an init() that is rejected leaves the service without a database handle,
\* so that the next init() opens the database and ensures the record again.
C30_InitEnsuresSettings ==
  [][IsInit =>
       /\ ret'.status = "ok" => "app" \in DOMAIN settingsStore'
       /\ ret'.status = "error" => ~db']_vars

====
